---- MODULE Spec2Model ----
(***************************************************************************)
(* Model of api/main.py (Sus Scanner API): the /health and /scan handlers, *)
(* the lazy scanner resolution (_import_first, _load_scanner_once) and the *)
(* result normalisation (_to_json).                                        *)
(*                                                                         *)
(* The scanner module itself is not part of the repository.  It is the     *)
(* environment: which candidate names import, which attributes the module  *)
(* exposes, and what each call into it does (raise or return an object).   *)
(* Where the scanner module is installed and what it exposes is chosen     *)
(* arbitrarily at process start and then fixed; what a call does is chosen *)
(* anew at each call.                                                      *)
(***************************************************************************)
EXTENDS Naturals, Sequences, FiniteSets, TLC

VARIABLES
    importable,     \* environment: the names importlib.import_module can load
    modattrs,       \* environment: the attributes each module object exposes
    _loaded,        \* main.py:39
    _analyze_fn,    \* main.py:38
    _ScannerCls,    \* main.py:37
    failed_before,  \* history: some finished request ended in a resolution failure
    last,           \* observation of the most recently handled request
    pc,             \* per worker thread: where it is in scan()
    wuser,          \* per worker thread: username
    wmod,           \* per worker thread: mod in _load_scanner_once
    wtried,         \* per worker thread: the names it handed to import_module
    wobs            \* per worker thread: how lines 84-111 went

vars == <<importable, modattrs, _loaded, _analyze_fn, _ScannerCls,
          failed_before, last, pc, wuser, wmod, wtried, wobs>>

envvars == <<importable, modattrs>>
resvars == <<_loaded, _analyze_fn, _ScannerCls>>
thrvars == <<pc, wuser, wmod, wtried, wobs>>

----------------------------------------------------------------------------
(* Bounds *)

\* longest raw username a request carries
MaxLen == 2
\* number of worker threads handling requests concurrently
NumWorkers == 2

----------------------------------------------------------------------------
(* Values *)

\* Python's None; handles and error texts are tuples of strings, None the empty one
None == <<>>

\* scanner = _ScannerCls(lookback_months=3)
lookback_months == 3

\* the names tried by _load_scanner_once, in order
names == <<"scanner", "services.scanner", "api.scanner">>

ModuleNames == {names[i] : i \in 1..Len(names)}

\* the module attributes _load_scanner_once looks up
ModuleAttrs == {"SusScanner", "analyze_user", "analyze_player"}

\* the method names scan() looks up on a SusScanner instance
MethodNames == {"analyze_user", "analyze_player"}

Chars == {" ", "a"}

RawUsernames == UNION {[1..n -> Chars] : n \in 0..MaxLen}

\* attribute names a result object may carry (as character sequences)
AttrNames == {<<"x">>, <<"_", "p">>, <<"y", "_">>}

\* how a result object answers to the attribute model_dump
DumpKinds == {"absent", "method", "raises", "notcallable", "nonmapping"}

\* a result object, as far as _to_json looks at it
Objects ==
    { [isdict |-> d, dump |-> k, hasvars |-> h, attrs |-> a] :
        d \in BOOLEAN, k \in DumpKinds, h \in BOOLEAN, a \in SUBSET AttrNames }

ResultObjects == {o \in Objects : ~o.hasvars => o.attrs = {}}

\* stands where there is no object
NoObject == [isdict |-> FALSE, dump |-> "absent", hasvars |-> FALSE, attrs |-> {}]

Object(d, k, h, a) == [isdict |-> d, dump |-> k, hasvars |-> h, attrs |-> a]

\* the results the entrypoints return in the request runs, of each shape: a dict,
\* a dict subclass with model_dump and attributes, objects whose model_dump works,
\* raises, is no callable or gives no dict, attribute bags, a scalar
ScanObjects ==
    { Object(TRUE, "absent", FALSE, {}),
      Object(TRUE, "method", TRUE, {<<"x">>}),
      Object(FALSE, "method", TRUE, {<<"x">>, <<"_", "p">>}),
      Object(FALSE, "raises", FALSE, {}),
      Object(FALSE, "notcallable", TRUE, {<<"x">>}),
      Object(FALSE, "nonmapping", FALSE, {}),
      Object(FALSE, "absent", TRUE, {<<"x">>, <<"_", "p">>, <<"y", "_">>}),
      Object(FALSE, "absent", TRUE, {<<"_", "p">>}),
      Object(FALSE, "absent", FALSE, {}) }

\* what a call into the scanner does: raise Exception(exc) or return ret
Outcomes(objs) ==
    {[raises |-> TRUE, exc |-> "boom", ret |-> NoObject]}
    \cup {[raises |-> FALSE, exc |-> "", ret |-> o] : o \in objs}

CallOutcomes == Outcomes(ScanObjects)

\* what constructing SusScanner does: raise, or give an instance with these methods
CtorOutcomes ==
    {[raises |-> TRUE, exc |-> "boom", methods |-> {}]}
    \cup {[raises |-> FALSE, exc |-> "", methods |-> m] : m \in SUBSET MethodNames}

----------------------------------------------------------------------------
(* Pure helpers *)

IsSpace(c) == c = " "

RECURSIVE lstrip(_)
lstrip(s) == IF s # <<>> /\ IsSpace(Head(s)) THEN lstrip(Tail(s)) ELSE s

RECURSIVE rstrip(_)
rstrip(s) ==
    IF s # <<>> /\ IsSpace(s[Len(s)]) THEN rstrip(SubSeq(s, 1, Len(s) - 1)) ELSE s

\* the username taken as sent
strip_forgotten(s) == s

\* str.strip()
strip(s) == rstrip(lstrip(s))

\* k.startswith("_")
startswith_underscore(k) == Len(k) > 0 /\ k[1] = "_"

\* importlib.import_module(n): the module (named by n) or an exception
import_module(n) ==
    IF n \in importable
    THEN [ok |-> TRUE, mod |-> n, err |-> None]
    ELSE [ok |-> FALSE, mod |-> "", err |-> <<"No module named ", n>>]

\* the for loop of _import_first from position i on
RECURSIVE import_loop(_, _, _, _)
import_loop(ns, i, last_err, tried) ==
    IF i > Len(ns)
    THEN [ok |-> FALSE, mod |-> "",
          err |-> IF last_err # None THEN last_err
                  ELSE <<"no module names provided">>,
          tried |-> tried]
    ELSE IF import_module(ns[i]).ok
         THEN [ok |-> TRUE, mod |-> import_module(ns[i]).mod, err |-> None,
               tried |-> Append(tried, ns[i])]
         ELSE import_loop(ns, i + 1, import_module(ns[i]).err, Append(tried, ns[i]))

\* the loop of _import_first keeping the first error met instead of the last
RECURSIVE import_loop_first_error(_, _, _, _)
import_loop_first_error(ns, i, first_err, tried) ==
    IF i > Len(ns)
    THEN [ok |-> FALSE, mod |-> "",
          err |-> IF first_err # None THEN first_err
                  ELSE <<"no module names provided">>,
          tried |-> tried]
    ELSE IF import_module(ns[i]).ok
         THEN [ok |-> TRUE, mod |-> import_module(ns[i]).mod, err |-> None,
               tried |-> Append(tried, ns[i])]
         ELSE import_loop_first_error(ns, i + 1,
                  IF first_err # None THEN first_err ELSE import_module(ns[i]).err,
                  Append(tried, ns[i]))

_import_first_keeps_first_error(ns) == import_loop_first_error(ns, 1, None, <<>>)

\* _import_first(*names): the first module that loads, else the last error;
\* tried lists the names handed to import_module
_import_first(ns) == import_loop(ns, 1, None, <<>>)

\* getattr(mod, name, None)
getattr(mod, name) == IF name \in modattrs[mod] THEN <<mod, name>> ELSE None

\* a or b on handles (a function object is truthy, None is not)
or_else(a, b) == IF a # None THEN a ELSE b

\* _ScannerCls = getattr(mod, "SusScanner", None)
resolve_cls(mod) == getattr(mod, "SusScanner")

\* _analyze_fn = getattr(mod, "analyze_user", None) or getattr(mod, "analyze_player", None)
resolve_fn(mod) == or_else(getattr(mod, "analyze_user"), getattr(mod, "analyze_player"))

----------------------------------------------------------------------------
(* Result normalisation *)

\* a value handed back by _to_json: the object itself ("same"), what its
\* model_dump() gave ("dumped"), a new dict of its attributes under keys
\* ("vars"), or {"result": str(obj)} ("result_str"); mapping tells a dict
Value(kind, of, keys, mapping) ==
    [kind |-> kind, of |-> of, keys |-> keys, mapping |-> mapping]

NoValue == Value("none", NoObject, {}, FALSE)

Returned(v) == [raised |-> FALSE, exc |-> "", val |-> v]

Raised(e) == [raised |-> TRUE, exc |-> e, val |-> NoValue]

\* obj.model_dump(), for an object that has the attribute
model_dump(obj) ==
    CASE obj.dump = "method"      -> Returned(Value("dumped", obj, {}, TRUE))
      [] obj.dump = "nonmapping"  -> Returned(Value("dumped", obj, {}, FALSE))
      [] obj.dump = "notcallable" -> Raised("TypeError: object is not callable")
      [] OTHER                    -> Raised("model_dump failed")

\* {k: v for k, v in vars(obj).items() if not k.startswith("_")}
public_vars(obj) == {k \in obj.attrs : ~startswith_underscore(k)}

\* _to_json looking for model_dump before it looks for a dict
_to_json_dump_first(obj) ==
    IF obj.dump # "absent" THEN model_dump(obj)
    ELSE IF obj.isdict THEN Returned(Value("same", obj, {}, TRUE))
    ELSE IF obj.hasvars THEN Returned(Value("vars", NoObject, public_vars(obj), TRUE))
    ELSE Returned(Value("result_str", obj, {}, TRUE))

\* _to_json(obj)
_to_json(obj) ==
    IF obj.isdict THEN Returned(Value("same", obj, {}, TRUE))
    ELSE IF obj.dump # "absent" THEN model_dump(obj)
    ELSE IF obj.hasvars THEN Returned(Value("vars", NoObject, public_vars(obj), TRUE))
    ELSE Returned(Value("result_str", obj, {}, TRUE))

----------------------------------------------------------------------------
(* Responses *)

\* raise HTTPException(status, detail); detail is a tuple of text pieces
HTTPException(status, detail) ==
    [kind |-> "HTTPException", status |-> status, detail |-> detail, body |-> NoValue]

\* return _to_json(metrics): the value, or the exception _to_json let through
\* (no except clause of scan() covers it)
return_json(metrics) ==
    IF _to_json(metrics).raised
    THEN [kind |-> "exception", status |-> 0,
          detail |-> <<_to_json(metrics).exc>>, body |-> NoValue]
    ELSE [kind |-> "return", status |-> 0, detail |-> <<>>,
          body |-> _to_json(metrics).val]

NoResponse == [kind |-> "none", status |-> 0, detail |-> <<>>, body |-> NoValue]

\* a call made into the scanner module
Call(op, target, arg, lookback) ==
    [op |-> op, target |-> target, arg |-> arg, lookback |-> lookback]

\* how lines 84-111 went: the calls made, the methods of the instance constructed
\* (if one was), which call raised ("" if none), whether the entrypoint call
\* returned (and then its result, metrics), and the response
Result(calls, methods, raised, returned, metrics, resp) ==
    [calls |-> calls, methods |-> methods, raised |-> raised,
     returned |-> returned, metrics |-> metrics, resp |-> resp]

\* a result with no entrypoint call that returned
Failed(calls, methods, raised, resp) ==
    Result(calls, methods, raised, FALSE, NoObject, resp)

\* the call's exception swallowed, the handler going on with metrics = None
after_call_swallowing(calls, methods, what, out, prefix) ==
    IF out.raises
    THEN Failed(calls, methods, what, return_json(NoObject))
    ELSE Result(calls, methods, "", TRUE, out.ret, return_json(out.ret))

\* try: metrics = <call>  except Exception as e: raise HTTPException(500, prefix + e)
\* return _to_json(metrics)
after_call(calls, methods, what, out, prefix) ==
    IF out.raises
    THEN Failed(calls, methods, what, HTTPException(500, <<prefix, out.exc>>))
    ELSE Result(calls, methods, "", TRUE, out.ret, return_json(out.ret))

----------------------------------------------------------------------------
(* scan(), after resolution *)

\* lines 86-90: metrics = _analyze_fn(username), for each thing the call may do
function_style(fn, username, outs) ==
    { after_call(<<Call("call", fn, username, 0)>>, {}, "function", out,
                 "analyze function failed: ") : out \in outs }

\* the two hasattr tests in the other order
pick_method_player_first(methods) ==
    IF "analyze_player" \in methods THEN "analyze_player"
    ELSE IF "analyze_user" \in methods THEN "analyze_user"
    ELSE ""

\* lines 96-101: the method scan() picks on the instance ("" when it has neither)
pick_method(methods) ==
    IF "analyze_user" \in methods THEN "analyze_user"
    ELSE IF "analyze_player" \in methods THEN "analyze_player"
    ELSE ""

\* lines 96-104 for an instance with these methods
method_call(cls, methods, username, outs) ==
    LET ctor == Call("construct", cls, <<>>, lookback_months)
        m    == pick_method(methods)
    IN  IF m = ""
        THEN { Failed(<<ctor>>, methods, "",
                 \* the HTTPException of line 101 is caught by line 102
                 HTTPException(500, <<"scanner failed: ",
                     "SusScanner lacks analyze_user/analyze_player">>)) }
        ELSE { after_call(<<ctor, Call("method", <<"scanner", m>>, username, 0)>>,
                          methods, "method", out, "scanner failed: ") : out \in outs }

\* lines 94-104: scanner = _ScannerCls(lookback_months=3) and the method call
class_style(cls, username, outs) ==
    UNION { IF co.raises
            THEN { Failed(<<Call("construct", cls, <<>>, lookback_months)>>, {},
                          "constructor",
                          HTTPException(500, <<"scanner failed: ", co.exc>>)) }
            ELSE method_call(cls, co.methods, username, outs) : co \in CtorOutcomes }

\* lines 106-111
no_entrypoints ==
    { Failed(<<>>, {}, "",
        HTTPException(500, <<"scanner.py loaded but no entrypoints found. ",
          "Define class SusScanner (with analyze_user/analyze_player) or export ",
          "analyze_user(name)/analyze_player(name).">>)) }

\* the class-style block placed before the function-style block
invoke_class_first(fn, cls, username, outs) ==
    IF cls # None THEN class_style(cls, username, outs)
    ELSE IF fn # None THEN function_style(fn, username, outs)
    ELSE no_entrypoints

\* lines 84-111 on the handles read from the globals
invoke(fn, cls, username, outs) ==
    IF fn # None THEN function_style(fn, username, outs)
    ELSE IF cls # None THEN class_style(cls, username, outs)
    ELSE no_entrypoints

----------------------------------------------------------------------------
(* Resolution *)

\* _load_scanner_once without its "if _loaded: return"
_load_scanner_every_time ==
    IF _import_first(names).ok
    THEN [raised |-> FALSE, err |-> None, tried |-> _import_first(names).tried,
          loaded |-> TRUE,
          fn  |-> resolve_fn(_import_first(names).mod),
          cls |-> resolve_cls(_import_first(names).mod)]
    ELSE [raised |-> TRUE, err |-> _import_first(names).err,
          tried |-> _import_first(names).tried,
          loaded |-> _loaded, fn |-> _analyze_fn, cls |-> _ScannerCls]

\* _load_scanner_once(): the globals after it, whether it raised (and what),
\* and the names it handed to import_module
_load_scanner_once ==
    IF _loaded
    THEN [raised |-> FALSE, err |-> None, tried |-> <<>>,
          loaded |-> _loaded, fn |-> _analyze_fn, cls |-> _ScannerCls]
    ELSE IF _import_first(names).ok
         THEN [raised |-> FALSE, err |-> None, tried |-> _import_first(names).tried,
               loaded |-> TRUE,
               fn  |-> resolve_fn(_import_first(names).mod),
               cls |-> resolve_cls(_import_first(names).mod)]
         ELSE [raised |-> TRUE, err |-> _import_first(names).err,
               tried |-> _import_first(names).tried,
               loaded |-> _loaded, fn |-> _analyze_fn, cls |-> _ScannerCls]

----------------------------------------------------------------------------
(* Requests handled one at a time *)

\* what is recorded about a handled request: the raw and the trimmed username, the
\* resolution state it found, whether an earlier request had failed to resolve, the
\* names it handed to import_module, and how it went
Observation(op, raw, username, after_failure, tried, res) ==
    [op |-> op, raw |-> raw, username |-> username,
     was_loaded |-> _loaded, was_fn |-> _analyze_fn, was_cls |-> _ScannerCls,
     after_failure |-> after_failure, tried |-> tried,
     calls |-> res.calls, methods |-> res.methods, raised |-> res.raised,
     returned |-> res.returned, metrics |-> res.metrics, resp |-> res.resp]

NoResult == Failed(<<>>, {}, "", NoResponse)

\* lines 76-77
validation_error ==
    Failed(<<>>, {}, "", HTTPException(400, <<"username is required">>))

\* lines 81-82
import_error(e) ==
    Failed(<<>>, {}, "",
           HTTPException(500, <<"failed to import scanner module: ">> \o e))

\* return {"ok": True}
health_ok ==
    Failed(<<>>, {}, "", [kind |-> "return", status |-> 0, detail |-> <<>>,
                          body |-> Value("ok", NoObject, {}, TRUE)])

\* GET /health
Health ==
    /\ last' = Observation("health", <<>>, <<>>, failed_before, <<>>, health_ok)
    /\ UNCHANGED <<envvars, resvars, failed_before, thrvars>>

\* POST /scan with this raw username, the whole handler
Scan(raw) ==
    LET username == strip(raw)
        r        == _load_scanner_once
    IN  IF username = <<>>
        THEN /\ last' = Observation("scan", raw, username, failed_before, <<>>,
                                    validation_error)
             /\ UNCHANGED <<envvars, resvars, failed_before, thrvars>>
        ELSE /\ _loaded' = r.loaded
             /\ _analyze_fn' = r.fn
             /\ _ScannerCls' = r.cls
             /\ failed_before' = (failed_before \/ r.raised)
             /\ IF r.raised
                THEN last' = Observation("scan", raw, username, failed_before,
                                         r.tried, import_error(r.err))
                ELSE \E res \in invoke(r.fn, r.cls, username, CallOutcomes) :
                        last' = Observation("scan", raw, username, failed_before,
                                            r.tried, res)
             /\ UNCHANGED <<envvars, thrvars>>

\* the environments a process may start in: one scanner module, exposing any of
\* the attributes looked up, installed at any of the candidate locations
Environments ==
    { [importable |-> at,
       modattrs |-> [m \in ModuleNames |-> IF m \in at THEN attrs ELSE {}]] :
        at \in SUBSET ModuleNames, attrs \in SUBSET ModuleAttrs }

\* module import time: lines 37-39
InitGlobals ==
    /\ _loaded = FALSE
    /\ _analyze_fn = None
    /\ _ScannerCls = None

InitWorkers ==
    /\ pc = [w \in 1..NumWorkers |-> "idle"]
    /\ wuser = [w \in 1..NumWorkers |-> <<>>]
    /\ wmod = [w \in 1..NumWorkers |-> ""]
    /\ wtried = [w \in 1..NumWorkers |-> <<>>]
    /\ wobs = [w \in 1..NumWorkers |-> NoResult]

Init ==
    /\ \E e \in Environments : importable = e.importable /\ modattrs = e.modattrs
    /\ InitGlobals
    /\ failed_before = FALSE
    /\ last = Observation("none", <<>>, <<>>, FALSE, <<>>, NoResult)
    /\ InitWorkers

Next ==
    \/ Health
    \/ \E raw \in RawUsernames : Scan(raw)

Spec == Init /\ [][Next]_vars

----------------------------------------------------------------------------
(* Requests handled concurrently: scan() is a plain def, which the framework runs *)
(* on the threads of a pool; a step is a line that reads or writes a global       *)

Workers == 1..NumWorkers

\* the usernames of the concurrent requests
RaceUsernames == {<<" ">>, <<"a">>}

\* what the entrypoints do in the concurrent requests: raise, or return a dict
RaceOutcomes == Outcomes({Object(TRUE, "absent", FALSE, {})})

\* lines 75-77: a request reaches a free thread
Begin(w, raw) ==
    /\ pc[w] = "idle"
    /\ wuser' = [wuser EXCEPT ![w] = strip(raw)]
    /\ IF strip(raw) = <<>>
       THEN /\ wobs' = [wobs EXCEPT ![w] = validation_error]
            /\ pc' = [pc EXCEPT ![w] = "done"]
       ELSE /\ wobs' = wobs
            /\ pc' = [pc EXCEPT ![w] = "load"]
    /\ UNCHANGED <<envvars, resvars, failed_before, last, wmod, wtried>>

\* line 54: if _loaded: return
TestLoaded(w) ==
    /\ pc[w] = "load"
    /\ pc' = [pc EXCEPT ![w] = IF _loaded THEN "read_fn" ELSE "import"]
    /\ UNCHANGED <<envvars, resvars, failed_before, last, wuser, wmod, wtried, wobs>>

\* line 56, and lines 81-82 when it raises
Import(w) ==
    /\ pc[w] = "import"
    /\ wtried' = [wtried EXCEPT ![w] = _import_first(names).tried]
    /\ IF _import_first(names).ok
       THEN /\ wmod' = [wmod EXCEPT ![w] = _import_first(names).mod]
            /\ wobs' = wobs
            /\ pc' = [pc EXCEPT ![w] = "store_cls"]
       ELSE /\ wmod' = wmod
            /\ wobs' = [wobs EXCEPT ![w] = import_error(_import_first(names).err)]
            /\ pc' = [pc EXCEPT ![w] = "done"]
    /\ UNCHANGED <<envvars, resvars, failed_before, last, wuser>>

\* line 57 with line 59 moved before it
StoreClsAfterFlag(w) ==
    /\ pc[w] = "store_cls"
    /\ _loaded' = TRUE
    /\ _ScannerCls' = resolve_cls(wmod[w])
    /\ pc' = [pc EXCEPT ![w] = "store_fn"]
    /\ UNCHANGED <<envvars, _analyze_fn, failed_before, last, wuser, wmod, wtried, wobs>>

\* line 57
StoreCls(w) ==
    /\ pc[w] = "store_cls"
    /\ _ScannerCls' = resolve_cls(wmod[w])
    /\ pc' = [pc EXCEPT ![w] = "store_fn"]
    /\ UNCHANGED <<envvars, _loaded, _analyze_fn, failed_before, last,
                   wuser, wmod, wtried, wobs>>

\* line 58
StoreFn(w) ==
    /\ pc[w] = "store_fn"
    /\ _analyze_fn' = resolve_fn(wmod[w])
    /\ pc' = [pc EXCEPT ![w] = "store_loaded"]
    /\ UNCHANGED <<envvars, _loaded, _ScannerCls, failed_before, last,
                   wuser, wmod, wtried, wobs>>

\* line 59
StoreLoaded(w) ==
    /\ pc[w] = "store_loaded"
    /\ _loaded' = TRUE
    /\ pc' = [pc EXCEPT ![w] = "read_fn"]
    /\ UNCHANGED <<envvars, _analyze_fn, _ScannerCls, failed_before, last,
                   wuser, wmod, wtried, wobs>>

\* lines 85-90
ReadFn(w) ==
    /\ pc[w] = "read_fn"
    /\ IF _analyze_fn # None
       THEN /\ \E res \in function_style(_analyze_fn, wuser[w], RaceOutcomes) :
                  wobs' = [wobs EXCEPT ![w] = res]
            /\ pc' = [pc EXCEPT ![w] = "done"]
       ELSE /\ wobs' = wobs
            /\ pc' = [pc EXCEPT ![w] = "read_cls"]
    /\ UNCHANGED <<envvars, resvars, failed_before, last, wuser, wmod, wtried>>

\* lines 93-111, reached with _analyze_fn found None
ReadCls(w) ==
    /\ pc[w] = "read_cls"
    /\ \E res \in invoke(None, _ScannerCls, wuser[w], RaceOutcomes) :
          wobs' = [wobs EXCEPT ![w] = res]
    /\ pc' = [pc EXCEPT ![w] = "done"]
    /\ UNCHANGED <<envvars, resvars, failed_before, last, wuser, wmod, wtried>>

\* the response is sent and the thread goes back to the pool
Respond(w) ==
    /\ pc[w] = "done"
    /\ pc' = [pc EXCEPT ![w] = "idle"]
    /\ wuser' = [wuser EXCEPT ![w] = <<>>]
    /\ wmod' = [wmod EXCEPT ![w] = ""]
    /\ wtried' = [wtried EXCEPT ![w] = <<>>]
    /\ wobs' = [wobs EXCEPT ![w] = NoResult]
    /\ UNCHANGED <<envvars, resvars, failed_before, last>>

NextRace ==
    \E w \in Workers :
        \/ \E raw \in RaceUsernames : Begin(w, raw)
        \/ TestLoaded(w)
        \/ Import(w)
        \/ StoreCls(w)
        \/ StoreFn(w)
        \/ StoreLoaded(w)
        \/ ReadFn(w)
        \/ ReadCls(w)
        \/ Respond(w)

SpecRace == Init /\ [][NextRace]_vars

----------------------------------------------------------------------------
(* _to_json on its own, over every result object *)

InitJson ==
    /\ importable = {}
    /\ modattrs = [m \in ModuleNames |-> {}]
    /\ InitGlobals
    /\ failed_before = FALSE
    /\ \E o \in ResultObjects :
          last = Observation("none", <<>>, <<>>, FALSE, <<>>,
                             Result(<<>>, {}, "", TRUE, o, NoResponse))
    /\ InitWorkers

\* return _to_json(metrics)
Normalise ==
    /\ last.op = "none"
    /\ last' = [last EXCEPT !.op = "_to_json", !.resp = return_json(last.metrics)]
    /\ UNCHANGED <<envvars, resvars, failed_before, thrvars>>

NextJson == Normalise

SpecJson == InitJson /\ [][NextJson]_vars

----------------------------------------------------------------------------
(* Properties of the requests handled one at a time *)

AllSpaces(s) == \A i \in 1..Len(s) : s[i] = " "

Spaces(n) == [k \in 1..n |-> " "]

\* t is raw without its leading and trailing spaces
IsTrimOf(t, raw) ==
    /\ t # <<>>
    /\ t[1] # " "
    /\ t[Len(t)] # " "
    /\ \E i, j \in 0..Len(raw) : raw = Spaces(i) \o t \o Spaces(j)

\* the positions of the candidate names that load
Loadable == {i \in 1..Len(names) : names[i] \in importable}

FirstLoadable == CHOOSE i \in Loadable : \A j \in Loadable : i <= j

\* the last handled request was a scan with a username that is not blank
ScannedName == last.op = "scan" /\ ~AllSpaces(last.raw)

ResolutionError ==
    HTTPException(500, <<"failed to import scanner module: ",
                         "No module named ", names[Len(names)]>>)

\* C1: a scan request for a non-blank username that comes after a request whose
\* resolution failed hands no name to import_module and answers with the
\* resolution error.
C1_FailureIsCached ==
    (ScannedName /\ last.after_failure) =>
        (last.tried = <<>> /\ last.resp = ResolutionError)

\* C2: a scan request that finds the module loaded hands no name to import_module
\* and leaves the loaded flag, the function handle and the class handle as it
\* found them.
C2_LoadedOnce ==
    (last.op = "scan" /\ last.was_loaded) =>
        /\ last.tried = <<>>
        /\ _loaded
        /\ _analyze_fn = last.was_fn
        /\ _ScannerCls = last.was_cls

\* a later request for a name, after a resolution that found neither entrypoint
C2_Witness ==
    /\ ScannedName
    /\ last.was_loaded
    /\ last.was_fn = None
    /\ last.was_cls = None

\* C3: a scan request whose username is empty or all spaces answers 400 "username
\* is required", hands no name to import_module, calls nothing in the scanner and
\* leaves the loaded flag and both handles as they were.
C3_BlankRejected ==
    (last.op = "scan" /\ AllSpaces(last.raw)) =>
        /\ last.resp = HTTPException(400, <<"username is required">>)
        /\ last.tried = <<>>
        /\ last.calls = <<>>
        /\ _loaded = last.was_loaded
        /\ _analyze_fn = last.was_fn
        /\ _ScannerCls = last.was_cls

\* an all-spaces username sent after the module was loaded
C3_Witness ==
    /\ last.op = "scan"
    /\ last.raw = <<" ", " ">>
    /\ last.was_loaded
    /\ last.resp.status = 400

\* C4: when the first candidate that loads has SusScanner and a function
\* analyze_user or analyze_player, a scan request for a non-blank username makes
\* exactly one call, to one of those functions of that module, with the username
\* stripped of its leading and trailing spaces, and constructs nothing.
C4_FunctionPreferred ==
    (/\ ScannedName
     /\ Loadable # {}
     /\ "SusScanner" \in modattrs[names[FirstLoadable]]
     /\ modattrs[names[FirstLoadable]] \cap {"analyze_user", "analyze_player"} # {}) =>
        /\ Len(last.calls) = 1
        /\ last.calls[1].op = "call"
        /\ last.calls[1].target[1] = names[FirstLoadable]
        /\ last.calls[1].target[2] \in
              modattrs[names[FirstLoadable]] \cap {"analyze_user", "analyze_player"}
        /\ IsTrimOf(last.calls[1].arg, last.raw)

\* both styles present, a username with a leading space
C4_Witness ==
    /\ ScannedName
    /\ Loadable # {}
    /\ modattrs[names[FirstLoadable]] = {"SusScanner", "analyze_player"}
    /\ last.raw = <<" ", "a">>
    /\ last.calls # <<>>
    /\ last.calls[1].arg = <<"a">>

\* C5: a scan request that constructed a SusScanner whose instance has both
\* analyze_user and analyze_player calls analyze_user once and nothing else on
\* it; analyze_player is called on an instance only when it has no analyze_user.
C5_FirstMethodWins ==
    (last.op = "scan" /\ last.calls # <<>> /\ last.calls[1].op = "construct") =>
        /\ last.methods = {"analyze_user", "analyze_player"} =>
              /\ Len(last.calls) = 2
              /\ last.calls[2].op = "method"
              /\ last.calls[2].target[2] = "analyze_user"
              /\ IsTrimOf(last.calls[2].arg, last.raw)
        /\ \A i \in 1..Len(last.calls) :
              (last.calls[i].op = "method" /\ last.calls[i].target[2] = "analyze_player")
                  => "analyze_user" \notin last.methods

\* an instance with both methods was called
C5_Witness ==
    /\ last.op = "scan"
    /\ last.methods = {"analyze_user", "analyze_player"}
    /\ Len(last.calls) = 2
    /\ last.returned

\* C6: a scan request for a non-blank username that finds the module not loaded
\* hands the candidate names to import_module in the order scanner,
\* services.scanner, api.scanner up to the first that loads, and calls into that
\* module only; when none loads it has tried all three and answers 500 with the
\* text of the failure of api.scanner.
C6_ImportOrder ==
    (ScannedName /\ ~last.was_loaded) =>
        IF Loadable = {}
        THEN /\ last.tried = names
             /\ last.resp = ResolutionError
             /\ last.calls = <<>>
             /\ ~_loaded
        ELSE /\ last.tried = SubSeq(names, 1, FirstLoadable)
             /\ _loaded
             /\ _analyze_fn # None => _analyze_fn[1] = names[FirstLoadable]
             /\ _ScannerCls # None => _ScannerCls[1] = names[FirstLoadable]
             /\ \A i \in 1..Len(last.calls) :
                   last.calls[i].op \in {"call", "construct"} =>
                       last.calls[i].target[1] = names[FirstLoadable]

\* the second candidate loaded and was called, the third would have loaded too
C6_Witness ==
    /\ ScannedName
    /\ ~last.was_loaded
    /\ importable = {"services.scanner", "api.scanner"}
    /\ last.tried = <<"scanner", "services.scanner">>
    /\ last.calls # <<>>

\* something failed while the last request was served: no candidate loaded, the
\* module has neither entrypoint, the instance has neither method, or a call into
\* the scanner raised
ScanFailure ==
    \/ Loadable = {}
    \/ modattrs[names[FirstLoadable]] = {}
    \/ (last.calls # <<>> /\ last.calls[Len(last.calls)].op = "construct")
    \/ last.raised # ""

\* C7: for a scan request with a non-blank username, each of those failures ends in
\* an HTTPException with status 500 and no body, and a value is returned only when
\* none of them happened and the entrypoint call returned.
C7_FailuresAre500 ==
    ScannedName =>
        /\ ScanFailure =>
              /\ last.resp.kind = "HTTPException"
              /\ last.resp.status = 500
              /\ last.resp.body = NoValue
        /\ last.resp.kind = "return" => (last.returned /\ ~ScanFailure)

\* the method call on a constructed instance raised
C7_Witness ==
    /\ ScannedName
    /\ last.raised = "method"
    /\ last.resp.status = 500

\* C9: a scan request whose entrypoint call returned ends in a returned dict.
C9_NormalisationTotal ==
    (last.op = "scan" /\ last.returned) =>
        (last.resp.kind = "return" /\ last.resp.body.mapping)

----------------------------------------------------------------------------
(* Properties of _to_json *)

\* C8: _to_json gives a dict back as it is, whatever else it has; else, for an
\* object whose model_dump is a method that returns, what model_dump returned;
\* else, for an object that has no model_dump but a __dict__, a dict of exactly
\* the attributes whose names do not start with an underscore; else
\* {"result": str(obj)}.
C8_NormalisationOrder ==
    last.op = "_to_json" =>
        LET o == last.metrics
            v == last.resp.body
        IN  /\ o.isdict => (last.resp.kind = "return" /\ v.kind = "same" /\ v.of = o)
            /\ (~o.isdict /\ o.dump \in {"method", "nonmapping"}) =>
                  (last.resp.kind = "return" /\ v.kind = "dumped" /\ v.of = o)
            /\ (~o.isdict /\ o.dump = "absent" /\ o.hasvars) =>
                  /\ last.resp.kind = "return"
                  /\ v.kind = "vars"
                  /\ v.keys = {k \in o.attrs : k[1] # "_"}
            /\ (~o.isdict /\ o.dump = "absent" /\ ~o.hasvars) =>
                  (last.resp.kind = "return" /\ v.kind = "result_str" /\ v.of = o)

\* a dict that also has model_dump and attributes came back as it is
C8_Witness ==
    /\ last.op = "_to_json"
    /\ last.metrics.isdict
    /\ last.metrics.dump = "method"
    /\ last.metrics.attrs = {<<"x">>, <<"_", "p">>}
    /\ last.resp.body.kind = "same"

----------------------------------------------------------------------------
(* Properties of the requests handled concurrently *)

\* the handles one resolution run alone records
SequentialFn ==
    IF Loadable = {} THEN None
    ELSE IF "analyze_user" \in modattrs[names[FirstLoadable]]
         THEN <<names[FirstLoadable], "analyze_user">>
    ELSE IF "analyze_player" \in modattrs[names[FirstLoadable]]
         THEN <<names[FirstLoadable], "analyze_player">>
    ELSE None

SequentialCls ==
    IF Loadable # {} /\ "SusScanner" \in modattrs[names[FirstLoadable]]
    THEN <<names[FirstLoadable], "SusScanner">>
    ELSE None

\* the call a request makes first when it picks its entrypoint from those handles
SequentialEntry ==
    IF SequentialFn # None THEN SequentialFn ELSE SequentialCls

\* C10: with requests on several threads and no lock around resolution, whenever
\* the loaded flag is set, and whenever a request stands at the lines that pick
\* the entrypoint, both handles hold what one resolution run alone records; before
\* that a handle holds None or that value; a request calls first the entrypoint
\* picked from those values; and when no candidate loads the flag stays unset.
C10_RaceIsBenign ==
    /\ _analyze_fn \in {None, SequentialFn}
    /\ _ScannerCls \in {None, SequentialCls}
    /\ _loaded => (Loadable # {} /\ _analyze_fn = SequentialFn /\ _ScannerCls = SequentialCls)
    /\ \A w \in Workers :
          /\ pc[w] \in {"read_fn", "read_cls"} =>
                (_loaded /\ _analyze_fn = SequentialFn /\ _ScannerCls = SequentialCls)
          /\ (pc[w] = "done" /\ wobs[w].calls # <<>>) =>
                wobs[w].calls[1].target = SequentialEntry
          /\ (pc[w] = "done" /\ wuser[w] # <<>> /\ wobs[w].calls = <<>>) =>
                SequentialEntry = None

\* two requests both ran the resolution and both went on to call the function
C10_Witness ==
    /\ NumWorkers >= 2
    /\ wtried[1] # <<>>
    /\ wtried[2] # <<>>
    /\ pc[1] = "done"
    /\ pc[2] = "done"
    /\ wobs[1].calls # <<>>
    /\ wobs[2].calls # <<>>
    /\ _loaded

====
